---- MODULE Spec2Model ----
(***************************************************************************)
(* The report document of userreporter.py: the markup generate_html        *)
(* emits, the state the embedded script keeps once a browser has loaded    *)
(* that markup (gate, rows, counts, pagination), the handlers of the       *)
(* script, and the export action, which serialises the live document       *)
(* (document.documentElement.outerHTML) into a file that can be opened     *)
(* again; and the desktop program that produces the report: the parser   *)
(* of the vendor export (parse_bosch_txt) and the Generate handler         *)
(* (generate_report).                                                      *)
(*                                                                         *)
(* Text is a sequence of one-character strings, so that escaping in the    *)
(* renderer, entity decoding by the HTML parser and escaping by the        *)
(* serialiser are computed character by character.                         *)
(***************************************************************************)
EXTENDS Integers, Sequences, FiniteSets, TLC

VARIABLES
    script,        \* text of the script element: the literal after let PASSWORD =
    PASSWORD,      \* the script's global PASSWORD ("" when the script did not run)
    currentPage,   \* the script's global currentPage
    loginDisplay,  \* inline style display of #loginDiv ("" when not set)
    mainDisplay,   \* inline style display of #mainContent
    pwdInput,      \* current value of the #pwdInput field
    rows,          \* the <tr> elements of the table body, in document order
    userCount,     \* text of #userCount
    deletedCount,  \* <<>> when #deletedCount does not exist, else <<its text>>
    pagination,    \* the buttons inside #pagination, in order
    file,          \* the exported file waiting to be opened, NoFile when none
    lastEvent,     \* the event whose handler ran last, and the row it targeted
    pristine,      \* no edit, add, delete or restore since the document loaded
    file_entry,    \* text of the input file entry of the program's window
    inputFile,     \* what the path in file_entry refers to on disk
    pc,            \* where the Generate handler stands
    lineNo,        \* lines of the input file the parser has read
    iteration,     \* the parser's local variables at the end of its last iteration
    seen_users,    \* the parser's dict, as <<key, value>> pairs in insertion order
    raised,        \* the exception parse_bosch_txt raised, NoException when none
    parsed,        \* <<>> until parse_bosch_txt has returned, then <<the list data>>
    logo,          \* what generate_report found in logo_entry and on disk
    logoData,      \* logo_data: <<>> for None, else <<what process_logo returned>>
    html,          \* NoFile until generate_html has returned, then its markup
    save_path,     \* what the save dialog returned, "" before it and when cancelled
    savedFile,     \* NoFile while nothing is at the destination, else the file there
    status         \* text of status_label

docVars == <<script, PASSWORD, currentPage, loginDisplay, mainDisplay, pwdInput, rows,
             userCount, deletedCount, pagination, file, lastEvent, pristine>>
appVars == <<file_entry, inputFile, pc, lineNo, iteration, seen_users, raised,
             parsed, logo, logoData, html, save_path, savedFile, status>>
vars == <<docVars, appVars>>

----------------------------------------------------------------------------
(* Bounds of the model *)

\* rows carrying the "added" mark a document may hold
MaxAdded == 1

(* Program constants *)

rowsPerPage == 50
AuthLevelCount == 8

----------------------------------------------------------------------------
(* Text *)

Digits == {"0", "1", "2", "3", "4", "5", "6", "7", "8", "9"}
DigitChar == <<"1", "2", "3", "4", "5", "6", "7", "8", "9">>

RECURSIVE Replace(_, _, _)
\* str.replace(c, r) for a one-character c
Replace(s, c, r) ==
    IF \A k \in 1..Len(s) : s[k] # c THEN s
    ELSE (IF Head(s) = c THEN r ELSE <<Head(s)>>) \o Replace(Tail(s), c, r)

AMP == <<"&", "a", "m", "p", ";">>
LT == <<"&", "l", "t", ";">>
GT == <<"&", "g", "t", ";">>
QUOT == <<"&", "q", "u", "o", "t", ";">>
APOS == <<"&", "#", "x", "2", "7", ";">>

\* C17 mutant: html.escape(s, quote=False)
HtmlEscapeNoQuotes(s) ==
    Replace(Replace(Replace(s, "&", AMP), "<", LT), ">", GT)

\* html.escape(s) with quote=True: & first, then < > " '
HtmlEscape(s) ==
    Replace(Replace(Replace(Replace(Replace(s, "&", AMP), "<", LT), ">", GT),
                    "\"", QUOT), "'", APOS)

StartsWith(s, p) == Len(s) >= Len(p) /\ SubSeq(s, 1, Len(p)) = p
Drop(s, n) == SubSeq(s, n + 1, Len(s))

RECURSIVE ParseText(_)
\* the HTML parser turning the markup between <td> and </td> into the text
\* of the cell: character references are decoded
ParseText(s) ==
    IF \A k \in 1..Len(s) : s[k] # "&" THEN s
    ELSE IF Head(s) # "&" THEN <<Head(s)>> \o ParseText(Tail(s))
    ELSE IF StartsWith(s, AMP) THEN <<"&">> \o ParseText(Drop(s, Len(AMP)))
    ELSE IF StartsWith(s, LT) THEN <<"<">> \o ParseText(Drop(s, Len(LT)))
    ELSE IF StartsWith(s, GT) THEN <<">">> \o ParseText(Drop(s, Len(GT)))
    ELSE IF StartsWith(s, QUOT) THEN <<"\"">> \o ParseText(Drop(s, Len(QUOT)))
    ELSE IF StartsWith(s, APOS) THEN <<"'">> \o ParseText(Drop(s, Len(APOS)))
    ELSE <<Head(s)>> \o ParseText(Tail(s))

\* C5 mutant: the text is written as it is
SerializeTextRaw(s) == s

\* outerHTML writing the text of a cell: & < > are escaped, quotes are not
SerializeText(s) ==
    Replace(Replace(Replace(s, "&", AMP), "<", LT), ">", GT)

----------------------------------------------------------------------------
(* Python strings *)

LowerLetters ==
    <<"a", "b", "c", "d", "e", "f", "g", "h", "i", "j", "k", "l", "m",
      "n", "o", "p", "q", "r", "s", "t", "u", "v", "w", "x", "y", "z">>
UpperLetters ==
    <<"A", "B", "C", "D", "E", "F", "G", "H", "I", "J", "K", "L", "M",
      "N", "O", "P", "Q", "R", "S", "T", "U", "V", "W", "X", "Y", "Z">>
\* [a-z], [A-Z], \s and \w of the re module, over the characters used here
Lower == {LowerLetters[k] : k \in DOMAIN LowerLetters}
Upper == {UpperLetters[k] : k \in DOMAIN UpperLetters}
Whitespace == {" ", "\t"}
WordChars == Lower \cup Upper \cup Digits \cup {"_"}

\* the characters of a string literal
Chars(str) == <<>> \o [k \in 1..Len(str) |-> SubSeq(str, k, k)]

RECURSIVE LStrip(_)
LStrip(s) == IF s # <<>> /\ Head(s) \in Whitespace THEN LStrip(Tail(s)) ELSE s
RECURSIVE RStrip(_)
RStrip(s) ==
    IF s # <<>> /\ s[Len(s)] \in Whitespace
    THEN RStrip(SubSeq(s, 1, Len(s) - 1)) ELSE s
\* str.strip()
Strip(s) == RStrip(LStrip(s))

RECURSIVE ReplaceAll(_, _, _)
\* str.replace(old, new): leftmost occurrences, not overlapping
ReplaceAll(s, old, new) ==
    IF Len(s) < Len(old) THEN s
    ELSE IF StartsWith(s, old)
         THEN new \o ReplaceAll(Drop(s, Len(old)), old, new)
         ELSE <<Head(s)>> \o ReplaceAll(Tail(s), old, new)

RECURSIVE Split(_, _)
\* str.split(c) for a one-character separator
Split(s, c) ==
    IF \A k \in 1..Len(s) : s[k] # c THEN <<s>>
    ELSE LET k == CHOOSE k \in 1..Len(s) :
                      s[k] = c /\ \A j \in 1..(k - 1) : s[j] # c
         IN  <<SubSeq(s, 1, k - 1)>> \o Split(Drop(s, k), c)

RECURSIVE SpaceRun(_)
\* length of the whitespace run at the head of s
SpaceRun(s) ==
    IF s # <<>> /\ Head(s) \in Whitespace THEN 1 + SpaceRun(Tail(s)) ELSE 0

RECURSIVE SubLowerPairs(_)
\* re.sub(r'([a-z])\s+([a-z])', r'\1\2', s): the scan goes on behind the
\* second letter of a match
SubLowerPairs(s) ==
    IF Len(s) < 3 THEN s
    ELSE LET n == SpaceRun(Tail(s))
         IN  IF Head(s) \in Lower /\ n >= 1 /\ Len(s) >= n + 2
                /\ s[n + 2] \in Lower
             THEN <<s[1], s[n + 2]>> \o SubLowerPairs(Drop(s, n + 2))
             ELSE <<Head(s)>> \o SubLowerPairs(Tail(s))

\* length of what [a-z]{1,2}\b matches at the head of s, 0 when it does not
\* match: two lowercase letters, or else one, with no word character behind
ShortTail(s) ==
    IF Len(s) >= 2 /\ s[1] \in Lower /\ s[2] \in Lower
       /\ (Len(s) = 2 \/ s[3] \notin WordChars) THEN 2
    ELSE IF Len(s) >= 1 /\ s[1] \in Lower
            /\ (Len(s) = 1 \/ s[2] \notin WordChars) THEN 1
    ELSE 0

RECURSIVE SubShortTails(_)
\* re.sub(r'([a-zA-Z])\s+([a-z]{1,2}\b)', r'\1\2', s)
SubShortTails(s) ==
    IF Len(s) < 3 THEN s
    ELSE LET n == SpaceRun(Tail(s))
             g == ShortTail(Drop(s, n + 1))
         IN  IF Head(s) \in (Lower \cup Upper) /\ n >= 1 /\ g >= 1
             THEN <<s[1]>> \o SubSeq(s, n + 2, n + 1 + g)
                  \o SubShortTails(Drop(s, n + 1 + g))
             ELSE <<Head(s)>> \o SubShortTails(Tail(s))

RECURSIVE CollapseRuns(_)
CollapseRuns(s) ==
    IF s = <<>> THEN <<>>
    ELSE IF Head(s) \in Whitespace
         THEN <<" ">> \o CollapseRuns(Drop(s, SpaceRun(s)))
         ELSE <<Head(s)>> \o CollapseRuns(Tail(s))
\* " ".join(s.split())
JoinWords(s) == CollapseRuns(Strip(s))

\* str.lower(), str.isdigit()
LowerOf(c) ==
    IF c \in Upper
    THEN LowerLetters[CHOOSE k \in DOMAIN UpperLetters : UpperLetters[k] = c]
    ELSE c
ToLower(s) == [k \in 1..Len(s) |-> LowerOf(s[k])]
IsDigit(s) == s # <<>> /\ \A k \in 1..Len(s) : s[k] \in Digits

----------------------------------------------------------------------------
(* The secret in the script element *)

RECURSIVE Str(_)
\* the string with these characters
Str(s) == IF s = <<>> THEN "" ELSE Head(s) \o Str(Tail(s))

\* json.dumps(password): the text in double quotes, \ and " escaped
JsonDumps(s) ==
    <<"\"">> \o Replace(Replace(s, "\\", <<"\\", "\\">>), "\"", <<"\\", "\"">>)
    \o <<"\"">>

\* the HTML parser reading script data: an end tag of the script element
\* starts here
ScriptEndTag(s) ==
    /\ Len(s) > 8
    /\ ToLower(SubSeq(s, 1, 8)) = Chars("</script")
    /\ s[9] \in Whitespace \cup {"/", ">"}

RECURSIVE ScriptData(_)
\* what the HTML parser keeps as the text of the script element: the text up
\* to the first end tag
ScriptData(s) ==
    IF s = <<>> \/ ScriptEndTag(s) THEN <<>>
    ELSE <<Head(s)>> \o ScriptData(Tail(s))

RECURSIVE LiteralEnd(_, _)
\* position of the quote that closes a string literal scanned from k on,
\* 0 when there is none
LiteralEnd(s, k) ==
    IF k > Len(s) THEN 0
    ELSE IF s[k] = "\\" THEN LiteralEnd(s, k + 2)
    ELSE IF s[k] = "\"" THEN k
    ELSE LiteralEnd(s, k + 1)

\* the script compiles: what follows let PASSWORD = is a complete literal
ScriptRuns(literal) ==
    /\ Len(literal) >= 2
    /\ literal[1] = "\""
    /\ LiteralEnd(literal, 2) = Len(literal)

RECURSIVE JsUnescape(_)
\* the characters a string literal's body stands for
JsUnescape(s) ==
    IF s = <<>> THEN <<>>
    ELSE IF Head(s) = "\\" /\ Len(s) >= 2
         THEN <<s[2]>> \o JsUnescape(Drop(s, 2))
         ELSE <<Head(s)>> \o JsUnescape(Tail(s))

\* the value of a string literal
JsString(literal) == Str(JsUnescape(SubSeq(literal, 2, Len(literal) - 1)))

----------------------------------------------------------------------------
(* Authority options *)

OptNone == <<"N", "o", "n", "e">>
\* f"A{level}"
Opt(level) == <<"A", DigitChar[level]>>
AuthOptions == {OptNone} \cup {Opt(l) : l \in 1..AuthLevelCount}

\* C16 mutant: the None option is always written with the selected attribute
SelectedOptionsWithNone(auth_value) ==
    {OptNone} \cup {Opt(l) : l \in {k \in 1..AuthLevelCount : Opt(k) = auth_value}}

\* the options generate_html writes with the selected attribute, for the
\* record's authority value
SelectedOptions(auth_value) ==
    LET auth_num ==
            IF StartsWith(auth_value, <<"A">>) /\ Len(auth_value) = 2
               /\ auth_value[2] \in Digits
            THEN <<auth_value[2]>>
            ELSE OptNone
    IN  (IF auth_num = OptNone THEN {OptNone} ELSE {})
        \cup {Opt(l) : l \in {k \in 1..AuthLevelCount : <<DigitChar[k]>> = auth_num}}

\* the value a <select> shows after load: the option bearing the selected
\* attribute, or the first option when none bears it
SelectValue(selected) ==
    IF selected = {} THEN OptNone ELSE CHOOSE o \in selected : TRUE

----------------------------------------------------------------------------
(* Markup: what generate_html writes and what export writes *)

NoFile == [kind |-> "none"]

\* one <tr> of generate_html
RenderRow(rec) ==
    [name |-> HtmlEscape(rec[1]),
     passcode |-> HtmlEscape(rec[2]),
     selected |-> SelectedOptions(rec[3]),
     classes |-> {},
     contentEditable |-> "true",
     disabled |-> FALSE,
     btnText |-> "Remove",
     display |-> ""]

\* the logo block: written when logoData is given and its type is one of
\* the four the renderer accepts
AllowedMimes == {"png", "jpeg", "gif", "webp"}
LogoHtml(logo_data) ==
    IF logo_data # <<>> /\ logo_data[1].mime_type \in AllowedMimes
    THEN logo_data ELSE <<>>

generate_html(data, password, logo_data) ==
    [kind |-> "html",
     logo_html |-> LogoHtml(logo_data),
     PASSWORD |-> IF password # "" THEN JsonDumps(Chars(password)) ELSE Chars("\"\""),
     loginDisplay |-> "",
     mainDisplay |-> "none",
     rows |-> [i \in 1..Len(data) |-> RenderRow(data[i])],
     userCount |-> Len(data),
     deletedCount |-> <<>>,
     pagination |-> <<>>]

----------------------------------------------------------------------------
(* Loading a document: the parser builds the elements, the script runs *)

\* document.addEventListener("DOMContentLoaded", ...): every .editable-cell
\* of the parsed document gets an input listener
DOMContentLoaded(rs) ==
    [i \in 1..Len(rs) |-> [rs[i] EXCEPT !.inputListener = TRUE]]

\* the <tr> element the parser builds from one row of markup; the value of
\* its <select> comes from the selected attributes, it has no listener yet
ParseRow(m, i) ==
    [node |-> i,
     name |-> ParseText(m.name),
     passcode |-> ParseText(m.passcode),
     selected |-> m.selected,
     value |-> SelectValue(m.selected),
     classes |-> m.classes,
     contentEditable |-> m.contentEditable,
     disabled |-> m.disabled,
     btnText |-> m.btnText,
     display |-> m.display,
     inputListener |-> FALSE]

\* a button of #pagination as parsed from markup: btn.onclick was a property
\* of the element that wrote it and is not part of the markup
ParseButton(b) == [active |-> b.active, onclick |-> FALSE]

\* the state of a freshly opened document with markup m
LoadDocument(m) ==
    [script |-> ScriptData(m.PASSWORD),
     PASSWORD |-> IF ScriptRuns(ScriptData(m.PASSWORD))
                  THEN JsString(ScriptData(m.PASSWORD)) ELSE "",
     currentPage |-> 1,
     loginDisplay |-> m.loginDisplay,
     mainDisplay |-> m.mainDisplay,
     pwdInput |-> "",
     rows |-> IF ScriptRuns(ScriptData(m.PASSWORD))
              THEN DOMContentLoaded([i \in 1..Len(m.rows) |-> ParseRow(m.rows[i], i)])
              ELSE [i \in 1..Len(m.rows) |-> ParseRow(m.rows[i], i)],
     userCount |-> m.userCount,
     deletedCount |-> m.deletedCount,
     pagination |-> [i \in 1..Len(m.pagination) |-> ParseButton(m.pagination[i])]]

Open(m) ==
    LET d == LoadDocument(m)
    IN  /\ script' = d.script
        /\ PASSWORD' = d.PASSWORD
        /\ currentPage' = d.currentPage
        /\ loginDisplay' = d.loginDisplay
        /\ mainDisplay' = d.mainDisplay
        /\ pwdInput' = d.pwdInput
        /\ rows' = d.rows
        /\ userCount' = d.userCount
        /\ deletedCount' = d.deletedCount
        /\ pagination' = d.pagination

----------------------------------------------------------------------------
(* Inputs *)

Entries == {"", "s", "t", "\"\\", "</script>"}
TypedTexts == {<<>>, <<"z", "<">>}
SampleNames == << <<"a", "<">>, <<"'">>, <<"&", "l", "t", ";">> >>
SamplePasscodes == << <<"4">>, <<>>, <<"&">> >>
SampleAuths == <<Opt(3), OptNone, Opt(8)>>

Cycle(seq, i) == seq[((i - 1) % Len(seq)) + 1]

\* the record list handed to generate_html: n records, all different from
\* their neighbours
Data(n) ==
    [i \in 1..n |-> <<Cycle(SampleNames, i), Cycle(SamplePasscodes, i),
                      Cycle(SampleAuths, i)>>]

\* the renderer's inputs: an empty list, one record, one full page, one
\* record more than a page
RenderInputs ==
    {<<0, "s">>, <<1, "">>, <<1, "s">>, <<1, "\"\\">>, <<1, "</script>">>,
     <<rowsPerPage, "s">>, <<rowsPerPage + 1, "s">>}

Event(op, i) == [op |-> op, row |-> i]

NoException == [type |-> "", message |-> ""]
NoIteration == [candidate |-> FALSE]
NoLogo == [given |-> FALSE, isfile |-> FALSE, size |-> 0, ext |-> "", asked |-> FALSE]

\* the program's window with nothing entered and Generate not pressed
ProgramIdle ==
    /\ file_entry = ""
    /\ inputFile = [isfile |-> FALSE, readable |-> FALSE, lines |-> <<>>]
    /\ pc = "idle"
    /\ lineNo = 0
    /\ iteration = NoIteration
    /\ seen_users = <<>>
    /\ raised = NoException
    /\ parsed = <<>>
    /\ logo = NoLogo
    /\ logoData = <<>>
    /\ html = NoFile
    /\ save_path = ""
    /\ savedFile = NoFile
    /\ status = "READY"

Init ==
    \E in \in RenderInputs :
        LET d == LoadDocument(generate_html(Data(in[1]), in[2], <<>>))
        IN  /\ script = d.script
            /\ PASSWORD = d.PASSWORD
            /\ currentPage = d.currentPage
            /\ loginDisplay = d.loginDisplay
            /\ mainDisplay = d.mainDisplay
            /\ pwdInput = d.pwdInput
            /\ rows = d.rows
            /\ userCount = d.userCount
            /\ deletedCount = d.deletedCount
            /\ pagination = d.pagination
            /\ file = NoFile
            /\ lastEvent = Event("load", 0)
            /\ pristine = TRUE
            /\ ProgramIdle

----------------------------------------------------------------------------
(* The functions of the embedded script *)

IsDeleted(r) == "deleted" \in r.classes

\* updateUserCount: the text of #userCount
ActiveCount(rs) == Cardinality({i \in 1..Len(rs) : ~IsDeleted(rs[i])})

\* C7 mutant: the indicator is updated but never removed
DeletedInfoKept(rs, deletedInfo) ==
    LET deletedRows == Cardinality({i \in 1..Len(rs) : IsDeleted(rs[i])})
    IN  IF deletedInfo = <<>> /\ deletedRows = 0 THEN <<>> ELSE <<deletedRows>>

\* updateUserCount: the #deletedCount element after the call
DeletedInfo(rs, deletedInfo) ==
    LET deletedRows == Cardinality({i \in 1..Len(rs) : IsDeleted(rs[i])})
    IN  IF deletedInfo = <<>> /\ deletedRows > 0 THEN <<deletedRows>>
        ELSE IF deletedInfo # <<>>
             THEN (IF deletedRows > 0 THEN <<deletedRows>> ELSE <<>>)
             ELSE deletedInfo

\* Math.ceil(rows.length / rowsPerPage)
TotalPages(n) ==
    IF n % rowsPerPage = 0 THEN n \div rowsPerPage ELSE (n \div rowsPerPage) + 1

\* C8 mutant: the slice starts one row late
PaginateRowsShifted(rs, page) ==
    LET start == (page - 1) * rowsPerPage
        end == start + rowsPerPage
    IN  [i \in 1..Len(rs) |->
            [rs[i] EXCEPT !.display =
                IF i >= start /\ i < end THEN "" ELSE "none"]]

\* paginateTable: the rows, those of rows.slice(start, end) shown and every
\* other one hidden
PaginateRows(rs, page) ==
    LET start == (page - 1) * rowsPerPage
        end == start + rowsPerPage
    IN  [i \in 1..Len(rs) |->
            [rs[i] EXCEPT !.display =
                IF i - 1 >= start /\ i - 1 < end THEN "" ELSE "none"]]

\* paginateTable: the buttons it puts into #pagination
PaginationButtons(n, page) ==
    IF TotalPages(n) > 1
    THEN [i \in 1..TotalPages(n) |-> [active |-> (i = page), onclick |-> TRUE]]
    ELSE <<>>

\* the input listener of an editable cell, run on the cell's row
InputListener(r) ==
    IF ~IsDeleted(r) THEN [r EXCEPT !.classes = @ \cup {"modified"}] ELSE r

\* markModified(element), run on the row that holds the element
markModified(r) ==
    IF ~IsDeleted(r) THEN [r EXCEPT !.classes = @ \cup {"modified"}] ELSE r

\* C2 mutant: restore also clears the modified mark
RestoreRowUnmarked(r) ==
    [r EXCEPT !.classes = @ \ {"deleted", "modified"},
              !.btnText = "Remove",
              !.contentEditable = "true",
              !.disabled = FALSE]

\* deleteRow, branch of a row that is marked deleted: restore it
RestoreRow(r) ==
    [r EXCEPT !.classes = @ \ {"deleted"},
              !.btnText = "Remove",
              !.contentEditable = "true",
              !.disabled = FALSE]

\* C6 mutant: the cells of a deleted row stay editable
MarkDeletedStillEditable(r) ==
    [r EXCEPT !.classes = @ \cup {"deleted"},
              !.btnText = "Restore",
              !.disabled = TRUE]

\* deleteRow, branch of a row that is not marked deleted, confirm accepted
MarkDeleted(r) ==
    [r EXCEPT !.classes = @ \cup {"deleted"},
              !.btnText = "Restore",
              !.contentEditable = "false",
              !.disabled = TRUE]

\* C10 mutant: the new row's dropdown starts at A1
NewRowA1(rs) ==
    [node |-> Len(rs) + 1,
     name |-> <<>>,
     passcode |-> <<>>,
     selected |-> {Opt(1)},
     value |-> Opt(1),
     classes |-> {"added"},
     contentEditable |-> "true",
     disabled |-> FALSE,
     btnText |-> "Remove",
     display |-> "",
     inputListener |-> TRUE]

\* addRow: the row table.insertRow() and the following lines build
NewRow(rs) ==
    [node |-> Len(rs) + 1,
     name |-> <<>>,
     passcode |-> <<>>,
     selected |-> {OptNone},
     value |-> OptNone,
     classes |-> {"added"},
     contentEditable |-> "true",
     disabled |-> FALSE,
     btnText |-> "Remove",
     display |-> "",
     inputListener |-> TRUE]

\* C9 mutant: the new row is inserted at index 0
InsertRowFirst(rs) == <<NewRow(rs)>> \o rs

\* table.insertRow() with no index appends
InsertRow(rs) == Append(rs, NewRow(rs))

\* C4 mutant: the export writes the deleted mark only
SerializeRowBaseline(r) ==
    [name |-> SerializeText(r.name),
     passcode |-> SerializeText(r.passcode),
     selected |-> r.selected,
     classes |-> r.classes \cap {"deleted"},
     contentEditable |-> r.contentEditable,
     disabled |-> r.disabled,
     btnText |-> r.btnText,
     display |-> r.display]

\* outerHTML of one <tr>
SerializeRow(r) ==
    [name |-> SerializeText(r.name),
     passcode |-> SerializeText(r.passcode),
     selected |-> r.selected,
     classes |-> r.classes,
     contentEditable |-> r.contentEditable,
     disabled |-> r.disabled,
     btnText |-> r.btnText,
     display |-> r.display]

\* document.documentElement.outerHTML: attributes, text and script source of
\* the live document
OuterHTML ==
    [kind |-> "html",
     PASSWORD |-> script,
     loginDisplay |-> loginDisplay,
     mainDisplay |-> mainDisplay,
     rows |-> [i \in 1..Len(rows) |-> SerializeRow(rows[i])],
     userCount |-> userCount,
     deletedCount |-> deletedCount,
     pagination |-> [i \in 1..Len(pagination) |-> [active |-> pagination[i].active]]]

----------------------------------------------------------------------------
(* What the user can reach *)

\* the script of the open document compiled and ran
ScriptRan == ScriptRuns(script)

LoginVisible == loginDisplay # "none"
MainVisible == mainDisplay = "block"

\* the user works in the open document until an export is accepted, and
\* then opens the exported file
Usable == ScriptRan /\ MainVisible /\ file = NoFile

\* positions within a page of the rows whose button the user clicks
TouchedOffsets == {0}
\* positions in the document of the rows the user types and picks options in
EditedRows == {1}

\* a row whose button the user can click: it is displayed, inside displayed
\* main content
Touchable(i) ==
    /\ i \in 1..Len(rows)
    /\ Usable
    /\ rows[i].display = ""
    /\ ((i - 1) % rowsPerPage) \in TouchedOffsets

\* a row the user can try to type or pick an option in
Reachable(i) == Touchable(i) /\ i \in EditedRows

DropdownChoices == {OptNone, Opt(1)}

AddedCount == Cardinality({i \in 1..Len(rows) : "added" \in rows[i].classes})

----------------------------------------------------------------------------
(* Events *)

\* the user types into #pwdInput
TypePassword(t) ==
    /\ LoginVisible
    /\ pwdInput # t
    /\ pwdInput' = t
    /\ lastEvent' = Event("type", 0)
    /\ UNCHANGED <<script, PASSWORD, currentPage, loginDisplay, mainDisplay, rows,
                   userCount, deletedCount, pagination, file, pristine>>
    /\ UNCHANGED appVars

\* checkPassword(): the Authenticate button, or Enter in #pwdInput; where
\* the script did not run the button's onclick finds no function and the
\* field has no keypress listener
checkPassword ==
    /\ LoginVisible
    /\ IF ~ScriptRan
       THEN /\ lastEvent' = Event("noHandler", 0)
            /\ UNCHANGED <<loginDisplay, mainDisplay, rows, pagination,
                           userCount, deletedCount, pwdInput>>
       ELSE IF pwdInput = PASSWORD
       THEN /\ loginDisplay' = "none"
            /\ mainDisplay' = "block"
            /\ rows' = PaginateRows(rows, currentPage)
            /\ pagination' = PaginationButtons(Len(rows), currentPage)
            /\ userCount' = ActiveCount(rows)
            /\ deletedCount' = DeletedInfo(rows, deletedCount)
            /\ lastEvent' = Event("authenticated", 0)
            /\ UNCHANGED pwdInput
       ELSE /\ pwdInput' = ""
            /\ lastEvent' = Event("rejected", 0)
            /\ UNCHANGED <<loginDisplay, mainDisplay, rows, pagination,
                           userCount, deletedCount>>
    /\ UNCHANGED <<script, PASSWORD, currentPage, file, pristine>>
    /\ UNCHANGED appVars

\* the user tries to type text t into a cell of row i: an editable cell takes
\* the text and fires its input listeners, any other cell takes nothing
TypeInCell(r, field, t) ==
    IF r.contentEditable = "true"
    THEN LET typed == [r EXCEPT ![field] = t]
         IN  IF typed.inputListener THEN InputListener(typed) ELSE typed
    ELSE r

InputName(i, t) ==
    /\ Reachable(i)
    /\ rows' = [rows EXCEPT ![i] = TypeInCell(@, "name", t)]
    /\ lastEvent' = Event("inputName", i)
    /\ pristine' = (pristine /\ rows' = rows)
    /\ UNCHANGED <<script, PASSWORD, currentPage, loginDisplay, mainDisplay, pwdInput,
                   userCount, deletedCount, pagination, file>>
    /\ UNCHANGED appVars

InputPasscode(i, t) ==
    /\ Reachable(i)
    /\ rows' = [rows EXCEPT ![i] = TypeInCell(@, "passcode", t)]
    /\ lastEvent' = Event("inputPasscode", i)
    /\ pristine' = (pristine /\ rows' = rows)
    /\ UNCHANGED <<script, PASSWORD, currentPage, loginDisplay, mainDisplay, pwdInput,
                   userCount, deletedCount, pagination, file>>
    /\ UNCHANGED appVars

\* the user tries to pick option v in the dropdown of row i: an enabled
\* <select> takes the value and runs onchange="markModified(this)"
PickOption(r, v) ==
    IF ~r.disabled THEN markModified([r EXCEPT !.value = v]) ELSE r

ChangeAuth(i, v) ==
    /\ Reachable(i)
    /\ rows[i].value # v
    /\ rows' = [rows EXCEPT ![i] = PickOption(@, v)]
    /\ lastEvent' = Event("changeAuth", i)
    /\ pristine' = (pristine /\ rows' = rows)
    /\ UNCHANGED <<script, PASSWORD, currentPage, loginDisplay, mainDisplay, pwdInput,
                   userCount, deletedCount, pagination, file>>
    /\ UNCHANGED appVars

\* deleteRow(btn) on the button of row i; answer is what confirm() returns
\* when it is asked
deleteRow(i, answer) ==
    /\ Touchable(i)
    /\ LET toggled ==
               IF IsDeleted(rows[i]) THEN [rows EXCEPT ![i] = RestoreRow(@)]
               ELSE IF answer THEN [rows EXCEPT ![i] = MarkDeleted(@)]
               ELSE rows
       IN  /\ userCount' = ActiveCount(toggled)
           /\ deletedCount' = DeletedInfo(toggled, deletedCount)
           /\ rows' = PaginateRows(toggled, currentPage)
           /\ pagination' = PaginationButtons(Len(toggled), currentPage)
    /\ lastEvent' = Event(IF IsDeleted(rows[i]) THEN "restore"
                          ELSE IF answer THEN "delete" ELSE "declineDelete", i)
    /\ pristine' = (pristine /\ ~IsDeleted(rows[i]) /\ ~answer)
    /\ UNCHANGED <<script, PASSWORD, currentPage, loginDisplay, mainDisplay, pwdInput, file>>
    /\ UNCHANGED appVars

\* C28 mutant: the page of the new row becomes the current page
addRowShowingIt ==
    /\ Usable
    /\ AddedCount < MaxAdded
    /\ LET inserted == InsertRow(rows)
       IN  /\ userCount' = ActiveCount(inserted)
           /\ deletedCount' = DeletedInfo(inserted, deletedCount)
           /\ currentPage' = TotalPages(Len(inserted))
           /\ rows' = PaginateRows(inserted, currentPage')
           /\ pagination' = PaginationButtons(Len(inserted), currentPage')
    /\ lastEvent' = Event("addRow", Len(rows) + 1)
    /\ pristine' = FALSE
    /\ UNCHANGED <<script, PASSWORD, loginDisplay, mainDisplay, pwdInput, file>>
    /\ UNCHANGED appVars

\* addRow(): the Add User button
addRow ==
    /\ Usable
    /\ AddedCount < MaxAdded
    /\ LET inserted == InsertRow(rows)
       IN  /\ userCount' = ActiveCount(inserted)
           /\ deletedCount' = DeletedInfo(inserted, deletedCount)
           /\ rows' = PaginateRows(inserted, currentPage)
           /\ pagination' = PaginationButtons(Len(inserted), currentPage)
    /\ lastEvent' = Event("addRow", Len(rows) + 1)
    /\ pristine' = FALSE
    /\ UNCHANGED <<script, PASSWORD, currentPage, loginDisplay, mainDisplay, pwdInput, file>>
    /\ UNCHANGED appVars

\* C24 mutant: a page change writes the rows afresh, without their marks
ClickPageRedrawing(k) ==
    /\ Usable
    /\ k \in 1..Len(pagination)
    /\ pagination[k].onclick
    /\ currentPage' = k
    /\ rows' = PaginateRows([i \in 1..Len(rows) |-> [rows[i] EXCEPT !.classes = {}]], k)
    /\ pagination' = PaginationButtons(Len(rows), k)
    /\ lastEvent' = Event("page", 0)
    /\ UNCHANGED <<script, PASSWORD, loginDisplay, mainDisplay, pwdInput, userCount,
                   deletedCount, file, pristine>>
    /\ UNCHANGED appVars

\* btn.onclick of the k-th pagination button
ClickPage(k) ==
    /\ Usable
    /\ k \in 1..Len(pagination)
    /\ pagination[k].onclick
    /\ currentPage' = k
    /\ rows' = PaginateRows(rows, k)
    /\ pagination' = PaginationButtons(Len(rows), k)
    /\ lastEvent' = Event("page", 0)
    /\ UNCHANGED <<script, PASSWORD, loginDisplay, mainDisplay, pwdInput, userCount,
                   deletedCount, file, pristine>>
    /\ UNCHANGED appVars

\* C25 mutant: the file is produced whatever confirm() returns
exportHTMLUnasked(answer) ==
    /\ Usable
    /\ file' = OuterHTML
    /\ lastEvent' = Event(IF answer THEN "export" ELSE "declineExport", 0)
    /\ UNCHANGED <<script, PASSWORD, currentPage, loginDisplay, mainDisplay, pwdInput,
                   rows, userCount, deletedCount, pagination, pristine>>
    /\ UNCHANGED appVars

\* exportHTML(): the Export Report button; answer is what confirm() returns
exportHTML(answer) ==
    /\ Usable
    /\ IF answer THEN file' = OuterHTML ELSE UNCHANGED file
    /\ lastEvent' = Event(IF answer THEN "export" ELSE "declineExport", 0)
    /\ UNCHANGED <<script, PASSWORD, currentPage, loginDisplay, mainDisplay, pwdInput,
                   rows, userCount, deletedCount, pagination, pristine>>
    /\ UNCHANGED appVars

\* the user opens the exported file in the browser
Reopen ==
    /\ file # NoFile
    /\ Open(file)
    /\ lastEvent' = Event("reopen", 0)
    /\ pristine' = TRUE
    /\ file' = NoFile
    /\ UNCHANGED appVars

Next ==
    \/ \E t \in Entries : TypePassword(t)
    \/ checkPassword
    \/ \E i \in 1..Len(rows), t \in TypedTexts : InputName(i, t)
    \/ \E i \in 1..Len(rows), t \in TypedTexts : InputPasscode(i, t)
    \/ \E i \in 1..Len(rows), v \in DropdownChoices : ChangeAuth(i, v)
    \/ \E i \in 1..Len(rows), answer \in BOOLEAN : deleteRow(i, answer)
    \/ addRow
    \/ \E k \in 1..Len(pagination) : ClickPage(k)
    \/ \E answer \in BOOLEAN : exportHTML(answer)
    \/ Reopen

Spec == Init /\ [][Next]_vars

----------------------------------------------------------------------------
(* parse_bosch_txt: one iteration of its loop *)

UserPrefix == Chars("User ")

\* line.strip().replace(" ,", ",").replace(", ", ",")
NormalizeLine(line) ==
    ReplaceAll(ReplaceAll(Strip(line), <<" ", ",">>, <<",">>),
               <<",", " ">>, <<",">>)

\* [p.strip() for p in line.split(",")]
Parts(line) ==
    LET p == Split(line, ",") IN [k \in 1..Len(p) |-> Strip(p[k])]

\* C20 mutant: six fields are enough
IsUserLineOfSix(line) ==
    /\ StartsWith(NormalizeLine(line), UserPrefix)
    /\ Len(Parts(NormalizeLine(line))) > 5

\* the two tests a line has to pass to be looked at
IsUserLine(line) ==
    /\ StartsWith(NormalizeLine(line), UserPrefix)
    /\ Len(Parts(NormalizeLine(line))) > 6

RepairName(raw_name) == JoinWords(SubShortTails(SubLowerPairs(raw_name)))

\* parts[5:13]
AuthLevels(parts) ==
    SubSeq(parts, 6, IF Len(parts) < 13 THEN Len(parts) ELSE 13)

\* C14 mutant: only the lowercase spelling of "no" counts as not set
AuthValCaseSensitive(auth_levels) ==
    LET set == {idx \in 1..Len(auth_levels) :
                   auth_levels[idx] \notin {<<"0">>, <<"n", "o">>}}
    IN  IF set = {} THEN OptNone
        ELSE Opt(CHOOSE idx \in set : \A j \in set : idx <= j)

\* the first of the levels that is set, as f"A{idx}", else "None"
AuthVal(auth_levels) ==
    LET set == {idx \in 1..Len(auth_levels) :
                   /\ auth_levels[idx] # <<"0">>
                   /\ ToLower(auth_levels[idx]) # <<"n", "o">>}
    IN  IF set = {} THEN OptNone
        ELSE Opt(CHOOSE idx \in set : \A j \in set : idx <= j)

is_user_star(user_name) ==
    /\ StartsWith(user_name, UserPrefix)
    /\ IsDigit(Replace(Drop(user_name, 5), " ", <<>>))

\* C13 mutant: any passcode that is not empty counts
HasPasscodeNonEmpty(passcode) == passcode # <<>>

has_passcode(passcode) == passcode # <<>> /\ passcode # <<"0">>

\* the local variables at the end of the iteration that read the line with
\* this text
Iterate(text) ==
    IF ~IsUserLine(Chars(text)) THEN NoIteration
    ELSE LET parts == Parts(NormalizeLine(Chars(text)))
             user_name == RepairName(parts[2])
             passcode == Replace(parts[3], " ", <<>>)
         IN  [candidate |-> TRUE,
              user_id |-> ReplaceAll(parts[1], UserPrefix, <<>>),
              user_name |-> user_name,
              passcode |-> passcode,
              auth_val |-> AuthVal(AuthLevels(parts)),
              kept |-> ~is_user_star(user_name) \/ has_passcode(passcode)]

Keys(seen) == {seen[k][1] : k \in 1..Len(seen)}

\* C12 mutant: a later line with the same id replaces the entry
RememberLast(seen, it) ==
    IF it.candidate /\ it.kept
    THEN IF it.user_id \in Keys(seen)
         THEN [k \in 1..Len(seen) |->
                  IF seen[k][1] = it.user_id
                  THEN <<it.user_id, <<it.user_name, it.passcode, it.auth_val>>>>
                  ELSE seen[k]]
         ELSE Append(seen, <<it.user_id, <<it.user_name, it.passcode, it.auth_val>>>>)
    ELSE seen

\* C26 mutant: every kept line adds an entry
RememberEvery(seen, it) ==
    IF it.candidate /\ it.kept
    THEN Append(seen, <<it.user_id, <<it.user_name, it.passcode, it.auth_val>>>>)
    ELSE seen

\* if not is_user_star or has_passcode: if user_id not in seen_users:
\*     seen_users[user_id] = [user_name, passcode, auth_val]
Remember(seen, it) ==
    IF it.candidate /\ it.kept /\ it.user_id \notin Keys(seen)
    THEN Append(seen, <<it.user_id, <<it.user_name, it.passcode, it.auth_val>>>>)
    ELSE seen

\* list(seen_users.values())
Values(seen) == [k \in 1..Len(seen) |-> seen[k][2]]

----------------------------------------------------------------------------
(* The program: inputs *)

\* lines an input file may hold
MaxLines == 3

\* the lines of the input files, as text
SampleLines ==
    {"User 0, J o hn  Sm ith, 4821, x,x,0,0,1,0,0,0,0,0",
     "User 7, User 7, 0, x,x,0,nO,0,1,0,0,0,0",
     "User 7, User 7, 48 21, x,x,0,0,0,0,0,0,0,0,1",
     "User 7,a<b>&\"',<&>,x,x,NO,",
     "User 8, User 1 2, , x,x,0,0,0,0,0,0,0,1",
     "  User 0 ,Ann B, 0 ,x,x, 0 ,no,0,1,0,0,0,0",
     "User 9, Short, 1, x, x, 1",
     "Users 3, a, b, c, d, e, f"}

RECURSIVE IterationTable(_)
\* the iteration over each of these lines, as a table
IterationTable(lines) ==
    LET l == CHOOSE l \in lines : TRUE
    IN  IF lines \ {l} = {} THEN l :> Iterate(l)
        ELSE (l :> Iterate(l)) @@ IterationTable(lines \ {l})

\* the iteration over every line an input file may hold
IterationOf == IterationTable(SampleLines)

RECURSIVE FilesOfLength(_)
FilesOfLength(n) ==
    IF n = 0 THEN {<<>>}
    ELSE {Append(f, l) : f \in FilesOfLength(n - 1), l \in SampleLines}

\* what the path typed into file_entry may refer to
InputFiles ==
    {[isfile |-> FALSE, readable |-> FALSE, lines |-> <<>>],
     [isfile |-> TRUE, readable |-> FALSE, lines |-> <<>>]}
    \cup {[isfile |-> TRUE, readable |-> TRUE, lines |-> f] :
             f \in UNION {FilesOfLength(n) : n \in 0..MaxLines}}

\* no report document is open in a browser
NoDocument ==
    /\ script = <<>>
    /\ PASSWORD = ""
    /\ currentPage = 1
    /\ loginDisplay = ""
    /\ mainDisplay = "none"
    /\ pwdInput = ""
    /\ rows = <<>>
    /\ userCount = 0
    /\ deletedCount = <<>>
    /\ pagination = <<>>
    /\ file = NoFile
    /\ lastEvent = Event("none", 0)
    /\ pristine = TRUE

InitReport ==
    /\ NoDocument
    /\ \/ file_entry = "" /\ inputFile = [isfile |-> FALSE, readable |-> FALSE, lines |-> <<>>]
       \/ file_entry = "users.txt" /\ inputFile \in InputFiles
    /\ pc = "idle"
    /\ lineNo = 0
    /\ iteration = NoIteration
    /\ seen_users = <<>>
    /\ raised = NoException
    /\ parsed = <<>>
    /\ logo = NoLogo
    /\ logoData = <<>>
    /\ html = NoFile
    /\ save_path = ""
    /\ savedFile = NoFile
    /\ status = "READY"

----------------------------------------------------------------------------
(* The program: the Generate handler, step by step *)

\* generate_report up to the call of parse_bosch_txt
generate_report ==
    /\ pc = "idle"
    /\ IF file_entry = ""
       THEN status' = "ERROR: NO INPUT FILE SELECTED" /\ pc' = "done"
       ELSE status' = "PROCESSING..." /\ pc' = "parse"
    /\ UNCHANGED <<file_entry, inputFile, lineNo, iteration, seen_users, raised,
                   parsed, logo, logoData, html, save_path, savedFile>>
    /\ UNCHANGED docVars

\* str(e)[:40]
Truncate(message) == SubSeq(message, 1, IF Len(message) < 40 THEN Len(message) ELSE 40)

\* except Exception as e: the status shows the start of the message
ErrorStatus(e) == "ERROR: " \o Truncate(e.message)

\* C19 mutant: a path that is no regular file reads as an empty file
OpenFailsNever(f) == NoException

\* os.path.isfile(filepath) and open(filepath): the exception they end in
OpenFails(f) ==
    IF ~f.isfile THEN [type |-> "ValueError", message |-> "Invalid file path"]
    ELSE IF ~f.readable
         THEN [type |-> "PermissionError", message |-> "[Errno 13] Permission denied: 'users.txt'"]
         ELSE NoException

\* parse_bosch_txt up to its loop; an exception ends generate_report in its
\* except clause
parse_bosch_txt ==
    /\ pc = "parse"
    /\ raised' = OpenFails(inputFile)
    /\ IF raised' # NoException
       THEN status' = ErrorStatus(raised') /\ pc' = "done"
       ELSE pc' = "lines" /\ UNCHANGED status
    /\ seen_users' = <<>>
    /\ UNCHANGED <<file_entry, inputFile, lineNo, iteration, parsed, logo,
                   logoData, html, save_path, savedFile>>
    /\ UNCHANGED docVars

\* one iteration of for line in f
ReadLine ==
    /\ pc = "lines"
    /\ lineNo < Len(inputFile.lines)
    /\ lineNo' = lineNo + 1
    /\ iteration' = Iterate(inputFile.lines[lineNo + 1])
    /\ seen_users' = Remember(seen_users, iteration')
    /\ UNCHANGED <<file_entry, inputFile, pc, raised, parsed, logo, logoData,
                   html, save_path, savedFile, status>>
    /\ UNCHANGED docVars

\* parse_bosch_txt returns, and generate_report tests the list
Return ==
    /\ pc = "lines"
    /\ lineNo = Len(inputFile.lines)
    /\ parsed' = <<Values(seen_users)>>
    /\ IF parsed'[1] = <<>>
       THEN status' = "WARNING: NO DATA FOUND" /\ pc' = "done"
       ELSE pc' = "logo" /\ UNCHANGED status
    /\ UNCHANGED <<file_entry, inputFile, lineNo, iteration, seen_users, raised,
                   logo, logoData, html, save_path, savedFile>>
    /\ UNCHANGED docVars

\* 100 * 1024, the size above which process_logo asks
LogoWarnBytes == 102400

\* what logo_entry holds and what its path refers to
LogoEntries ==
    {NoLogo}
    \cup {[given |-> TRUE, isfile |-> FALSE, size |-> 0, ext |-> ".png", asked |-> FALSE]}
    \cup {[given |-> TRUE, isfile |-> TRUE, size |-> n, ext |-> ".jpg", asked |-> FALSE] :
             n \in {LogoWarnBytes, LogoWarnBytes + 1}}
    \cup {[given |-> TRUE, isfile |-> TRUE, size |-> 1, ext |-> ".svg", asked |-> FALSE]}

RECURSIVE LowerStr(_)
\* str.lower() of a string kept as text
LowerStr(str) ==
    IF Len(str) = 0 THEN ""
    ELSE LowerOf(SubSeq(str, 1, 1)) \o LowerStr(SubSeq(str, 2, Len(str)))

\* C21 mutant: an extension outside the table is passed on as the kind
MimeTypeOfExtension(ext) ==
    IF ext = ".png" THEN "png"
    ELSE IF ext \in {".jpg", ".jpeg"} THEN "jpeg"
    ELSE IF ext = ".gif" THEN "gif"
    ELSE IF ext = ".webp" THEN "webp"
    ELSE SubSeq(ext, 2, Len(ext))

\* mime_types.get(ext, 'png')
MimeType(ext) ==
    IF ext = ".png" THEN "png"
    ELSE IF ext \in {".jpg", ".jpeg"} THEN "jpeg"
    ELSE IF ext = ".gif" THEN "gif"
    ELSE IF ext = ".webp" THEN "webp"
    ELSE "png"

\* process_logo(image_path): <<>> for None; response is what askyesno
\* returns when it is asked
process_logo(l, response) ==
    IF ~l.isfile THEN <<>>
    ELSE IF l.size > LogoWarnBytes /\ ~response THEN <<>>
    ELSE <<[b64 |-> l.size, mime_type |-> MimeType(LowerStr(l.ext))]>>

\* generate_report from logo_data = None to the test of what process_logo
\* returned
ReadLogoFrom(entries) ==
    /\ pc = "logo"
    /\ \E l \in entries, response \in BOOLEAN :
          /\ (l.isfile /\ l.size > LogoWarnBytes) \/ response
          /\ logo' = [l EXCEPT !.asked = l.isfile /\ l.size > LogoWarnBytes]
          /\ logoData' = IF l.given THEN process_logo(l, response) ELSE <<>>
          /\ pc' = IF l.given /\ logoData' = <<>> THEN "done" ELSE "render"
    /\ UNCHANGED <<file_entry, inputFile, lineNo, iteration, seen_users, raised,
                   parsed, html, save_path, savedFile, status>>
    /\ UNCHANGED docVars

ReadLogo == ReadLogoFrom(LogoEntries)

PasswordEntries == {"", "s"}

\* html = generate_html(data, pwd_entry.get(), logo_data)
Render ==
    /\ pc = "render"
    /\ \E password \in PasswordEntries :
          html' = generate_html(parsed[1], password, logoData)
    /\ pc' = "save"
    /\ UNCHANGED <<file_entry, inputFile, lineNo, iteration, seen_users, raised,
                   parsed, logo, logoData, save_path, savedFile, status>>
    /\ UNCHANGED docVars

\* what open(save_path, "w") and f.write(html) may end in
WriteOutcomes == {"written", "open fails", "write fails"}

\* a file that was opened for writing and not written to its end
PartialFile == [kind |-> "partial"]

\* with open(save_path, "w", encoding="utf-8") as f: f.write(html)
\* open creates or truncates the file before anything is written
WriteReport(path, outcome, content) ==
    IF path = "" \/ outcome = "open fails" THEN NoFile
    ELSE IF outcome = "write fails" THEN PartialFile
    ELSE content

\* the exception the two calls end in
WriteFails(outcome) ==
    IF outcome = "open fails"
    THEN [type |-> "PermissionError",
          message |-> "[Errno 13] Permission denied: 'report.html'"]
    ELSE IF outcome = "write fails"
         THEN [type |-> "OSError", message |-> "[Errno 28] No space left on device"]
         ELSE NoException

\* the save dialog and what follows it; chosen is "" when the dialog is
\* cancelled
Save ==
    /\ pc = "save"
    /\ \E chosen \in {"", "report.html"}, outcome \in WriteOutcomes :
          /\ chosen = "" => outcome = "written"
          /\ save_path' = chosen
          /\ savedFile' = WriteReport(chosen, outcome, html)
          /\ raised' = IF chosen = "" THEN NoException ELSE WriteFails(outcome)
          /\ status' = IF chosen = "" THEN "OPERATION CANCELLED"
                       ELSE IF raised' = NoException
                            THEN "SUCCESS: REPORT SAVED [" \o ToString(Len(parsed[1]))
                                 \o " USERS]"
                            ELSE ErrorStatus(raised')
    /\ pc' = "done"
    /\ UNCHANGED <<file_entry, inputFile, lineNo, iteration, seen_users, parsed,
                   logo, logoData, html>>
    /\ UNCHANGED docVars

NextReport ==
    \/ generate_report
    \/ parse_bosch_txt
    \/ ReadLine
    \/ Return
    \/ ReadLogo
    \/ Render
    \/ Save

SpecReport == InitReport /\ [][NextReport]_vars

\* the list parse_bosch_txt returns for a file with these lines
RECURSIVE SeenAfter(_)
SeenAfter(lines) ==
    IF lines = <<>> THEN <<>>
    ELSE Remember(SeenAfter(SubSeq(lines, 1, Len(lines) - 1)),
                  IterationOf[lines[Len(lines)]])

----------------------------------------------------------------------------
(* The program: the branding step, over more logo files *)

\* extensions of the logo file, as os.path.splitext returns them
SampleExts == {".png", ".PNG", ".jpeg", ".gif", ".webp", ".bmp", ""}

\* the logo entries of the program and a small logo file of every extension
BrandingEntries ==
    LogoEntries
    \cup {[given |-> TRUE, isfile |-> TRUE, size |-> 1, ext |-> e, asked |-> FALSE] :
             e \in SampleExts}

\* generate_report where parse_bosch_txt has returned the record of a file
\* of one line
InitLogo ==
    /\ NoDocument
    /\ file_entry = "users.txt"
    /\ \E l \in SampleLines :
          /\ SeenAfter(<<l>>) # <<>>
          /\ inputFile = [isfile |-> TRUE, readable |-> TRUE, lines |-> <<l>>]
    /\ pc = "logo"
    /\ lineNo = 1
    /\ iteration = Iterate(inputFile.lines[1])
    /\ seen_users = SeenAfter(inputFile.lines)
    /\ raised = NoException
    /\ parsed = <<Values(seen_users)>>
    /\ logo = NoLogo
    /\ logoData = <<>>
    /\ html = NoFile
    /\ save_path = ""
    /\ savedFile = NoFile
    /\ status = "PROCESSING..."

NextLogo ==
    \/ ReadLogoFrom(BrandingEntries)
    \/ Render
    \/ Save

SpecLogo == InitLogo /\ [][NextLogo]_vars

----------------------------------------------------------------------------
(* Reading a document *)

\* the state of a row as its class attribute encodes it
RowState(r) ==
    IF "deleted" \in r.classes THEN "Deleted"
    ELSE IF "added" \in r.classes THEN "Added"
    ELSE IF "modified" \in r.classes THEN "Modified"
    ELSE "Normal"

\* name, passcode and authority level a row shows
Fields(r) == [name |-> r.name, passcode |-> r.passcode, authority |-> r.value]

\* two row sequences are equivalent: as many rows, and position by position
\* the same fields and the same marks
Equivalent(rs, qs) ==
    /\ Len(rs) = Len(qs)
    /\ \A i \in 1..Len(rs) :
          Fields(rs[i]) = Fields(qs[i]) /\ rs[i].classes = qs[i].classes

\* the rows a browser shows when it opens the exported file
ExportedRows == LoadDocument(file).rows

DeletedRows == {i \in 1..Len(rows) : IsDeleted(rows[i])}

\* the page a position of the row sequence belongs to
PageOf(i) == ((i - 1) \div rowsPerPage) + 1

----------------------------------------------------------------------------
(* Claims *)

\* C1: every report document, rendered or exported and opened again, starts
\* with its main content hidden and the prompt shown, and content is visible
\* only after a submit whose text equals the embedded secret.
C1_EveryDocumentOpensGated ==
    /\ lastEvent.op \in {"load", "reopen"} => (mainDisplay = "none" /\ LoginVisible)
    /\ MainVisible => pwdInput = PASSWORD

\* C2: a delete leaves the marks and the fields of the row as they were, a
\* Deleted row keeps them, and restore removes the deleted mark and nothing
\* else: a restored row is in the state it had before the delete (Modified
\* after an edit, Added for an added row), with the same field values.
C2_RestoreReturnsPreDeleteState ==
    [][lastEvent'.op # "reopen" =>
        \A i \in 1..Len(rows) :
            /\ i <= Len(rows')
            /\ (IsDeleted(rows[i]) \/ IsDeleted(rows'[i])) =>
                  /\ Fields(rows'[i]) = Fields(rows[i])
                  /\ rows'[i].classes \ {"deleted"} = rows[i].classes \ {"deleted"}
            /\ (IsDeleted(rows[i]) /\ ~IsDeleted(rows'[i])) =>
                  /\ lastEvent' = Event("restore", i)
                  /\ RowState(rows'[i]) # "Deleted"
                  /\ rows'[i].contentEditable = "true"
                  /\ ~rows'[i].disabled]_vars

\* a row that was edited, deleted and then restored is Modified and shows the
\* typed name
C2_Witness ==
    /\ lastEvent.op = "restore"
    /\ RowState(rows[lastEvent.row]) = "Modified"
    /\ rows[lastEvent.row].name \in TypedTexts

\* C3: every row of the exported document, opened again, shows the name, the
\* passcode and the authority level the row had at the moment of export.
C3_ExportCarriesCurrentFields ==
    file # NoFile =>
        LET exported == ExportedRows
        IN  /\ Len(exported) = Len(rows)
            /\ \A i \in 1..Len(rows) : Fields(exported[i]) = Fields(rows[i])

\* C4 as stated: in the exported document Deleted rows are Deleted, and rows
\* that were Modified or Added are plain Normal rows.
C4_ExportedEditsBecomeBaseline ==
    file # NoFile =>
        LET exported == ExportedRows
        IN  \A i \in 1..Len(rows) :
                /\ IsDeleted(rows[i]) => RowState(exported[i]) = "Deleted"
                /\ RowState(rows[i]) \in {"Modified", "Added"} =>
                      RowState(exported[i]) = "Normal"

\* C4 amended: in the exported document every row carries the marks it had
\* at export time: Deleted rows are Deleted, Modified and Added rows are
\* still marked Modified and Added.
C4_ExportKeepsRowMarks ==
    file # NoFile =>
        LET exported == ExportedRows
        IN  /\ Len(exported) = Len(rows)
            /\ \A i \in 1..Len(rows) :
                  /\ exported[i].classes = rows[i].classes
                  /\ RowState(exported[i]) = RowState(rows[i])

\* an export of a document holding a Deleted, a Modified and an Added row
C4_Witness ==
    /\ file # NoFile
    /\ \E i, j, k \in 1..Len(rows) :
          /\ RowState(rows[i]) = "Deleted"
          /\ RowState(rows[j]) = "Modified"
          /\ RowState(rows[k]) = "Added"

\* C5: while no edit, add, delete or restore has happened since load the row
\* sequence stays the loaded one, and the export of such a document, opened
\* again, has an equivalent row sequence: as many rows, in the same order,
\* with the same fields and states. This holds again for the export of the
\* re-opened export. (The export is compared in the state it leaves, from
\* which the file is opened.)
C5_ExportFixedPoint ==
    [][/\ (pristine /\ pristine' /\ lastEvent'.op # "reopen") =>
              Equivalent(rows', rows)
       /\ (pristine /\ file # NoFile) =>
              LET exported == ExportedRows
              IN  Equivalent(exported, rows)]_vars

\* the open document is a re-opened export (its content is visible although
\* nothing was entered at the prompt), untouched since it was opened, and it
\* has been exported again
C5_Witness ==
    /\ pristine
    /\ file # NoFile
    /\ MainVisible /\ pwdInput # PASSWORD
    /\ Len(rows) >= rowsPerPage

\* C6: an edit event on a Deleted row changes nothing of the row, and an
\* edit event on a Normal row makes it Modified.
C6_EditsBlockedOnDeleted ==
    [][lastEvent'.op \in {"inputName", "inputPasscode", "changeAuth"} =>
        LET i == lastEvent'.row
        IN  /\ IsDeleted(rows[i]) => rows'[i] = rows[i]
            /\ RowState(rows[i]) = "Normal" => RowState(rows'[i]) = "Modified"]_vars

\* text was typed at a Deleted row that had been edited before its deletion
C6_Witness ==
    /\ lastEvent.op \in {"inputName", "inputPasscode"}
    /\ IsDeleted(rows[lastEvent.row])
    /\ "modified" \in rows[lastEvent.row].classes

\* C7: the displayed active count is the number of rows that are not
\* Deleted, and the deleted-count indicator exists exactly when some row is
\* Deleted, showing their number.
C7_CountsMatchRows ==
    /\ userCount + Cardinality(DeletedRows) = Len(rows)
    /\ (deletedCount = <<>>) <=> (DeletedRows = {})
    /\ deletedCount # <<>> => deletedCount[1] = Cardinality(DeletedRows)

\* the last Deleted row has just been restored and the indicator is gone
C7_Witness ==
    /\ lastEvent.op = "restore"
    /\ DeletedRows = {}
    /\ deletedCount = <<>>
    /\ userCount = Len(rows)

\* C8: the number of pages is the least P with P * 50 >= N, the pagination
\* control of a visible document offers exactly these pages (none for a
\* single page), and every row, whatever its state, is shown by exactly one
\* page: the one its position gives.
C8_Pagination ==
    LET N == Len(rows)
        P == TotalPages(N)
        shown == [p \in 1..P |-> PaginateRows(rows, p)]
    IN  /\ P * rowsPerPage >= N
        /\ P >= 0
        /\ P > 0 => (P - 1) * rowsPerPage < N
        /\ MainVisible => Len(pagination) = (IF P > 1 THEN P ELSE 0)
        /\ \A i \in 1..N :
              {p \in 1..P : shown[p][i].display = ""} = {PageOf(i)}

\* two pages, and a Deleted row on the second
C8_Witness ==
    /\ Len(pagination) = 2
    /\ \E i \in DeletedRows : PageOf(i) = 2

\* C9: no action removes a row or changes the order of the rows, and a
\* Deleted row stays stored with its field values.
C9_RowsNeverRemoved ==
    [][lastEvent'.op # "reopen" =>
        /\ Len(rows') >= Len(rows)
        /\ \A i \in 1..Len(rows) :
              /\ rows'[i].node = rows[i].node
              /\ IsDeleted(rows'[i]) => Fields(rows'[i]) = Fields(rows[i])]_vars

\* a row was added behind a Deleted row
C9_Witness ==
    /\ lastEvent.op = "addRow"
    /\ \E i \in DeletedRows : i < Len(rows) /\ rows[i].name # <<>>

\* C10: addRow appends exactly one row, Added, with empty name, empty
\* passcode and authority None; the existing rows keep fields and states,
\* the current page stays, the active count grows by one.
C10_AddRowFrame ==
    [][lastEvent'.op = "addRow" =>
        /\ Len(rows') = Len(rows) + 1
        /\ RowState(rows'[Len(rows')]) = "Added"
        /\ rows'[Len(rows')].classes = {"added"}
        /\ Fields(rows'[Len(rows')]) =
              [name |-> <<>>, passcode |-> <<>>, authority |-> OptNone]
        /\ Equivalent(SubSeq(rows', 1, Len(rows)), rows)
        /\ currentPage' = currentPage
        /\ userCount' = userCount + 1]_vars

\* a row was added while the second page was the current one
C10_Witness ==
    /\ lastEvent.op = "addRow"
    /\ currentPage = 2
    /\ Len(rows) > rowsPerPage + 1

\* C11: a delete-button press on a row that is not Deleted marks it Deleted
\* only when the confirmation is accepted; when it is declined the state and
\* the fields of every row, the counts, the current page and the rows shown
\* are as before; a press on a Deleted row restores it without asking.
C11_DeleteNeedsConfirmation ==
    [][lastEvent'.op \in {"delete", "declineDelete", "restore"} =>
        LET i == lastEvent'.row
        IN  /\ (~IsDeleted(rows[i]) /\ IsDeleted(rows'[i])) =>
                  lastEvent'.op = "delete"
            /\ lastEvent'.op = "declineDelete" =>
                  /\ Equivalent(rows', rows)
                  /\ userCount' = userCount
                  /\ deletedCount' = deletedCount
                  /\ currentPage' = currentPage
                  /\ \A j \in 1..Len(rows) : rows'[j].display = rows[j].display
            /\ IsDeleted(rows[i]) =>
                  lastEvent'.op = "restore" /\ ~IsDeleted(rows'[i])]_vars

\* the lines the parser has read so far
LinesRead == SubSeq(inputFile.lines, 1, lineNo)

RECURSIVE IterationsOver(_)
IterationsOver(lines) ==
    IF lines = <<>> THEN <<>>
    ELSE Append(IterationsOver(SubSeq(lines, 1, Len(lines) - 1)),
                IterationOf[lines[Len(lines)]])

\* the iterations over the lines read so far
Iterations == IterationsOver(LinesRead)

\* positions, among the iterations its, of the 'User <id>' lines with id u,
\* and of those among them that pass the placeholder filter
LinesWithId(its, u) ==
    {k \in DOMAIN its : its[k].candidate /\ its[k].user_id = u}
KeptLinesWithId(its, u) == {k \in LinesWithId(its, u) : its[k].kept}
First(positions) == CHOOSE k \in positions : \A j \in positions : k <= j

\* [user_name, passcode, auth_val] of an iteration over a 'User <id>' line
RecordOf(it) == <<it.user_name, it.passcode, it.auth_val>>

\* C12 as stated: of the 'User <id>' lines sharing an id only the first can
\* contribute a record, every later one is discarded, and the records come
\* in the order in which their ids were first seen. (Stated on the parser's
\* dict after each line; the list returned is its values.)
C12_FirstLineWins ==
    /\ pc = "lines" =>
          LET its == Iterations
              first == [k \in 1..Len(seen_users) |->
                           First(LinesWithId(its, seen_users[k][1]))]
          IN  /\ \A k \in 1..Len(seen_users) :
                    /\ its[first[k]].kept
                    /\ seen_users[k][2] = RecordOf(its[first[k]])
              /\ \A j, k \in 1..Len(seen_users) : j < k => first[j] < first[k]
    /\ parsed # <<>> => parsed[1] = Values(seen_users)

\* C12 amended: of the 'User <id>' lines sharing an id, only the first one
\* that passes the placeholder filter contributes a record; every later line
\* with that id is discarded, lines dropped by the filter before it do not
\* count, and the records come in the order of these first kept lines.
C12_FirstKeptLineWins ==
    /\ pc = "lines" =>
          LET its == Iterations
              first == [k \in 1..Len(seen_users) |->
                           First(KeptLinesWithId(its, seen_users[k][1]))]
          IN  /\ Keys(seen_users) =
                    {its[k].user_id :
                        k \in {j \in 1..lineNo : its[j].candidate /\ its[j].kept}}
              /\ Cardinality(Keys(seen_users)) = Len(seen_users)
              /\ \A k \in 1..Len(seen_users) :
                    seen_users[k][2] = RecordOf(its[first[k]])
              /\ \A j, k \in 1..Len(seen_users) : j < k => first[j] < first[k]
    /\ parsed # <<>> => parsed[1] = Values(seen_users)

\* the parser has returned for a file in which a placeholder line that is
\* dropped, a line that is kept and a different line that would be kept
\* share one id
C12_Witness ==
    LET its == Iterations
    IN  /\ parsed # <<>>
        /\ \E u \in Keys(seen_users) :
              /\ First(LinesWithId(its, u)) \notin KeptLinesWithId(its, u)
              /\ \E j, k \in KeptLinesWithId(its, u) :
                    RecordOf(its[j]) # RecordOf(its[k])

\* what the filter did with the line just read: its record is dropped when
\* no entry was made or found for its id
FilterDropped == iteration.candidate /\ ~iteration.kept
FilterKept ==
    /\ iteration.candidate /\ iteration.kept
    /\ iteration.user_id \in Keys(seen_users)

\* C13 as stated: a candidate whose repaired name is 'User', a space and
\* only digits is dropped when its passcode (spaces removed) is empty or
\* '0' and kept when it is any other non-empty string; a candidate whose
\* name is not of that form is never dropped.
C13_PlaceholderFilter ==
    iteration.candidate =>
        LET placeholder == /\ StartsWith(iteration.user_name, UserPrefix)
                           /\ IsDigit(Drop(iteration.user_name, 5))
            blank == iteration.passcode \in {<<>>, <<"0">>}
        IN  /\ (placeholder /\ blank) => FilterDropped
            /\ (placeholder /\ ~blank) => FilterKept
            /\ ~placeholder => FilterKept

\* C13 amended: a candidate whose repaired name is 'User', a space and then
\* digits, possibly with single spaces between them, is dropped when its
\* passcode (spaces removed) is empty or '0' and kept when it is any other
\* non-empty string; a candidate whose name is not of that form is never
\* dropped.
C13_PlaceholderFilterSpaced ==
    iteration.candidate =>
        LET digits == Drop(iteration.user_name, 5)
            placeholder ==
                /\ StartsWith(iteration.user_name, UserPrefix)
                /\ \A k \in 1..Len(digits) : digits[k] \in Digits \cup {" "}
                /\ \E k \in 1..Len(digits) : digits[k] \in Digits
            blank == iteration.passcode \in {<<>>, <<"0">>}
        IN  /\ (placeholder /\ blank) => FilterDropped /\ (lineNo = 1 => seen_users = <<>>)
            /\ (placeholder /\ ~blank) => FilterKept
            /\ ~placeholder => FilterKept

\* the lines read hold a placeholder that was dropped, one with a space
\* between its digits that was dropped, a placeholder with a passcode that
\* was kept and an ordinary name with passcode '0' that was kept
C13_Witness ==
    LET its == Iterations
    IN  /\ parsed # <<>>
        /\ \E k \in 1..Len(its) :
              /\ its[k].candidate /\ ~its[k].kept
              /\ " " \in {its[k].user_name[j] : j \in 6..Len(its[k].user_name)}
        /\ \E k \in 1..Len(its) :
              /\ its[k].candidate /\ its[k].kept
              /\ is_user_star(its[k].user_name)
              /\ parsed[1][1] = RecordOf(its[k])
        /\ \E k \in 1..Len(its) :
              /\ its[k].candidate /\ its[k].kept
              /\ ~is_user_star(its[k].user_name)
              /\ its[k].passcode = <<"0">>

\* the spellings of 'no'
NoSpellings == {Chars("no"), Chars("No"), Chars("nO"), Chars("NO")}

\* C14: the authority level of a candidate is A<k> for the lowest k in 1..8
\* such that field 4 + k of the line (fields counted from 0, so fields 5 to
\* 12) exists and is neither '0' nor 'no' in any letter case, and 'None'
\* when there is no such field; the flags 0,no,0,1,0,0,0,0 give A4.
C14_AuthorityPrecedence ==
    (pc = "lines" /\ iteration.candidate) =>
        LET fields == Parts(NormalizeLine(Chars(inputFile.lines[lineNo])))
            set == {k \in 1..AuthLevelCount :
                       /\ k + 5 <= Len(fields)
                       /\ fields[k + 5] \notin {<<"0">>} \cup NoSpellings}
        IN  /\ set = {} => iteration.auth_val = OptNone
            /\ \A k \in set :
                  (\A j \in set : k <= j) => iteration.auth_val = Opt(k)
            /\ (Len(fields) = 13 /\ SubSeq(fields, 6, 13) =
                   <<Chars("0"), Chars("no"), Chars("0"), Chars("1"),
                     Chars("0"), Chars("0"), Chars("0"), Chars("0")>>)
                  => iteration.auth_val = Opt(4)
            /\ (FilterKept /\ lineNo = 1) =>
                  seen_users[1][2][3] = iteration.auth_val

\* the parser returned the record of a line with the flags 0,no,0,1,0,0,0,0,
\* authority A4, after reading a line whose only flag set is in field 13
\* (authority None) and a line whose first flag is NO and whose second is
\* empty (authority A2)
C14_Witness ==
    LET its == Iterations
    IN  /\ parsed # <<>>
        /\ \E k \in 1..Len(parsed[1]) : parsed[1][k][3] = Opt(4)
        /\ \E k \in 1..Len(its) :
              /\ its[k].candidate /\ its[k].auth_val = OptNone
              /\ Len(Parts(NormalizeLine(Chars(inputFile.lines[k])))) > 13
        /\ \E k \in 1..Len(its) :
              /\ its[k].candidate /\ its[k].auth_val = Opt(2)
              /\ Parts(NormalizeLine(Chars(inputFile.lines[k])))[6] \in NoSpellings

\* C15: parsing the single line
\* 'User 0, J o hn  Sm ith, 4821, x,x,0,0,1,0,0,0,0,0' yields exactly one
\* record, with name 'John Smith', passcode '4821' and authority 'A3'.
C15_EndToEndLine ==
    (/\ parsed # <<>>
     /\ inputFile.lines =
           <<"User 0, J o hn  Sm ith, 4821, x,x,0,0,1,0,0,0,0,0">>)
        => parsed[1] = << <<Chars("John Smith"), Chars("4821"), Opt(3)>> >>

\* C16: generate_html writes one row per record, in the order of the list,
\* each without a modified, deleted or added mark, with exactly one option
\* selected, the record's authority level, and the user count it writes is
\* the number of records; the document a browser builds from it shows the
\* same.
C16_RowPerRecord ==
    html # NoFile =>
        LET records == parsed[1]
            loaded == LoadDocument(html)
        IN  /\ Len(html.rows) = Len(records)
            /\ html.userCount = Len(records)
            /\ loaded.userCount = Len(records)
            /\ \A i \in 1..Len(records) :
                  /\ html.rows[i].classes = {}
                  /\ html.rows[i].selected = {records[i][3]}
                  /\ RowState(loaded.rows[i]) = "Normal"
                  /\ Fields(loaded.rows[i]) =
                        [name |-> records[i][1], passcode |-> records[i][2],
                         authority |-> records[i][3]]

\* a record list with two records that differ in name and in authority
\* level, one of them None, has been rendered
C16_Witness ==
    /\ html # NoFile
    /\ Len(html.rows) = 2
    /\ parsed[1][1][1] # parsed[1][2][1]
    /\ \E i, j \in 1..2 :
          /\ parsed[1][i][3] = OptNone
          /\ parsed[1][j][3] \in AuthOptions \ {OptNone}

\* the markup characters
MarkupChars == {"<", ">", "&", "\"", "'"}

\* C17: the text generate_html writes into the name cell and the passcode
\* cell of a row holds no raw < > " ' and no & other than the one that
\* starts the entity of one of the five characters, and decoding the
\* entities gives back the record's text: nothing of a name or passcode can
\* open an element.
C17_CellsEscaped ==
    html # NoFile =>
        \A i \in 1..Len(html.rows) :
            \A cell \in {<<html.rows[i].name, parsed[1][i][1]>>,
                         <<html.rows[i].passcode, parsed[1][i][2]>>} :
                /\ \A k \in 1..Len(cell[1]) :
                      /\ cell[1][k] \notin MarkupChars \ {"&"}
                      /\ cell[1][k] = "&" =>
                            \E e \in {AMP, LT, GT, QUOT, APOS} :
                                StartsWith(Drop(cell[1], k - 1), e)
                /\ ParseText(cell[1]) = cell[2]

\* a record whose name holds all five markup characters and whose passcode
\* holds three of them has been rendered
C17_Witness ==
    /\ html # NoFile
    /\ \E i \in 1..Len(html.rows) :
          /\ MarkupChars \subseteq
                {parsed[1][i][1][k] : k \in 1..Len(parsed[1][i][1])}
          /\ {"<", "&", ">"} \subseteq
                {parsed[1][i][2][k] : k \in 1..Len(parsed[1][i][2])}

\* C18: a file is at the destination only if the input path was not empty,
\* the parser returned at least one record, the branding, when given, was
\* read and, when larger than 100KB, confirmed, the renderer returned, a
\* destination was chosen and no exception occurred; the file then holds
\* the rendered markup. In every other outcome nothing is written.
C18_AllOrNothing ==
    savedFile # NoFile =>
        /\ file_entry # ""
        /\ parsed # <<>> /\ parsed[1] # <<>>
        /\ logo.given =>
              /\ logo.isfile
              /\ logoData # <<>>
              /\ logo.size > LogoWarnBytes => logo.asked
        /\ html # NoFile
        /\ save_path # ""
        /\ raised = NoException
        /\ savedFile = html

\* raise ValueError("Invalid file path")
InvalidInput == [type |-> "ValueError", message |-> "Invalid file path"]

\* C19: parse_bosch_txt raises the invalid-input error exactly when the path
\* is not a regular file, and then returns nothing; for a file it can read
\* that holds no qualifying record it returns the empty list and raises
\* nothing; generate_report shows the two outcomes differently.
C19_InvalidInputOrEmptyList ==
    (file_entry # "" /\ pc \notin {"idle", "parse"}) =>
        /\ (raised = InvalidInput) <=> ~inputFile.isfile
        /\ raised = InvalidInput =>
              /\ parsed = <<>>
              /\ pc = "done" /\ status = "ERROR: Invalid file path"
        /\ (inputFile.isfile /\ inputFile.readable /\ lineNo = Len(inputFile.lines)
                /\ seen_users = <<>> /\ pc # "lines") =>
              /\ parsed = << <<>> >>
              /\ raised = NoException
              /\ pc = "done" /\ status = "WARNING: NO DATA FOUND"
        /\ parsed # <<>> => raised # InvalidInput

\* the parser has read a file of two lines, none of which gives a record,
\* and has returned the empty list
C19_Witness ==
    /\ inputFile.isfile
    /\ Len(inputFile.lines) = 2
    /\ parsed = << <<>> >>
    /\ raised = NoException
    /\ status = "WARNING: NO DATA FOUND"

\* the lines without the one at position k
WithoutLine(lines, k) == SubSeq(lines, 1, k - 1) \o SubSeq(lines, k + 1, Len(lines))

\* C20: a line that, trimmed and with the spaces around commas collapsed,
\* does not begin with 'User ', or that has 6 or fewer comma-separated
\* fields, raises nothing and leaves the parser's records as they are for
\* the same lines without it; the list returned is made of these records.
C20_MalformedLinesSkipped ==
    /\ pc = "lines" =>
          /\ raised = NoException
          /\ \A k \in 1..lineNo :
                LET line == NormalizeLine(Chars(inputFile.lines[k]))
                IN  (~StartsWith(line, UserPrefix) \/ Len(Split(line, ",")) <= 6)
                        => seen_users = SeenAfter(WithoutLine(LinesRead, k))
    /\ parsed # <<>> => parsed[1] = Values(seen_users)

\* the parser has returned two records for a file of three lines whose
\* second line is a 'User ' line of six fields
C20_Witness ==
    /\ parsed # <<>>
    /\ Len(inputFile.lines) = 3
    /\ StartsWith(Chars(inputFile.lines[2]), UserPrefix)
    /\ Len(Split(NormalizeLine(Chars(inputFile.lines[2])), ",")) = 6
    /\ Len(parsed[1]) = 2

\* kinds a caller may declare for a branding payload
DeclaredKinds == AllowedMimes \cup {"svg+xml", "bmp", "x-icon", "PNG", ""}

\* the kind the table of process_logo gives an extension
KindOfExtension ==
    [e \in {".png", ".jpg", ".jpeg", ".gif", ".webp"} |->
        IF e = ".png" THEN "png"
        ELSE IF e = ".gif" THEN "gif"
        ELSE IF e = ".webp" THEN "webp"
        ELSE "jpeg"]

\* C21: generate_html embeds a branding image exactly when a payload is
\* given and its declared kind is png, jpeg, gif or webp, and then with
\* that kind; process_logo gives the extensions .png, .jpg, .jpeg, .gif,
\* .webp (in any letter case) the kinds png, jpeg, jpeg, gif, webp and every
\* other extension png, so every payload it hands to the renderer is
\* embedded, with a kind of the allow-list.
C21_BrandingAllowList ==
    /\ \A kind \in DeclaredKinds :
          LET payload == <<[b64 |-> 1, mime_type |-> kind]>>
              document == generate_html(<<>>, "", payload)
          IN  /\ kind \in {"png", "jpeg", "gif", "webp"} =>
                    document.logo_html = payload
              /\ kind \notin {"png", "jpeg", "gif", "webp"} =>
                    document.logo_html = <<>>
    /\ logoData # <<>> =>
          LET e == LowerStr(logo.ext)
          IN  /\ e \in DOMAIN KindOfExtension =>
                    logoData[1].mime_type = KindOfExtension[e]
              /\ e \notin DOMAIN KindOfExtension => logoData[1].mime_type = "png"
              /\ logoData[1].mime_type \in {"png", "jpeg", "gif", "webp"}
    /\ html # NoFile =>
          /\ html.logo_html = logoData
          /\ \E password \in PasswordEntries :
                html = generate_html(parsed[1], password, logoData)

\* a report was rendered with the payload of a logo file whose extension is
\* not in the table of process_logo, embedded as png
C21_Witness ==
    /\ html # NoFile
    /\ logo.ext = ".bmp"
    /\ html.logo_html # <<>>
    /\ html.logo_html[1].mime_type = "png"

\* the events of the secret-entry prompt: a press of Authenticate or Enter
SubmitEvents == {"authenticated", "rejected", "noHandler"}

\* C22: a submit reveals the content exactly when the text entered equals
\* the embedded secret, whatever was submitted before; any other submit
\* leaves the content hidden and the prompt shown, with the entry cleared;
\* and while a document is open no action hides content that is visible.
C22_GateOneWayNoLockout ==
    [][/\ lastEvent'.op \in SubmitEvents =>
              /\ MainVisible' => (pwdInput = PASSWORD /\ ~LoginVisible')
              /\ ~MainVisible' =>
                    /\ LoginVisible'
                    /\ pwdInput' = ""
                    /\ ScriptRan => pwdInput # PASSWORD
       /\ (MainVisible /\ lastEvent'.op # "reopen") =>
              (MainVisible' /\ ~LoginVisible')]_vars

\* generate_report has returned without a report at the destination
EndedWithoutReport == pc = "done" /\ ~(html # NoFile /\ savedFile = html)

\* the status line shows an error, a warning or the cancellation
TerminalOutcome ==
    \/ StartsWith(Chars(status), Chars("ERROR: "))
    \/ StartsWith(Chars(status), Chars("WARNING: "))
    \/ status = "OPERATION CANCELLED"

\* C23: when generate_report has returned without writing a report (no
\* input file, invalid source path, no records, branding path invalid or
\* unreadable, oversize branding declined, save cancelled, any exception)
\* the status line shows an error, a warning or the cancellation, and after
\* no invocation it still shows 'PROCESSING...'.
C23_FailuresBecomeStatus ==
    /\ pc = "done" => status # "PROCESSING..."
    /\ EndedWithoutReport => TerminalOutcome

\* the positions of the rows that are displayed
VisibleRows == {i \in 1..Len(rows) : rows[i].display = ""}

\* C24: a page change sets the current page to the page selected and shows
\* the rows of that page; the number of rows, their order, every row's
\* fields, marks and editability, the active and deleted counts, the number
\* of page buttons and the gate stay as they were.
C24_PageChangeVisibilityOnly ==
    [][lastEvent'.op = "page" =>
        /\ Len(rows') = Len(rows)
        /\ \A i \in 1..Len(rows) :
              /\ rows'[i] = [rows[i] EXCEPT !.display = rows'[i].display]
              /\ rows'[i].display = (IF PageOf(i) = currentPage' THEN "" ELSE "none")
        /\ userCount' = userCount
        /\ deletedCount' = deletedCount
        /\ Len(pagination') = Len(pagination)
        /\ currentPage' \in 1..Len(pagination)
        /\ UNCHANGED <<script, PASSWORD, loginDisplay, mainDisplay, pwdInput, file>>]_vars

\* the second page was selected in a document whose first row was edited
\* and then deleted
C24_Witness ==
    /\ lastEvent.op = "page"
    /\ currentPage = 2
    /\ rows[1].classes = {"modified", "deleted"}
    /\ rows[1].display = "none"
    /\ deletedCount = <<1>>

\* C25: a press of Export produces a file exactly when the confirmation is
\* accepted, the file then holding one row of markup per row of the
\* document; accepted or declined, the open document keeps its rows with
\* their fields, marks and display, its counts, its current page, its page
\* buttons and its gate.
C25_ExportAskedAndFrameFree ==
    [][lastEvent'.op \in {"export", "declineExport"} =>
        /\ lastEvent'.op = "declineExport" => file' = NoFile
        /\ lastEvent'.op = "export" =>
              /\ file' # NoFile
              /\ file'.kind = "html"
              /\ Len(file'.rows) = Len(rows)
        /\ rows' = rows
        /\ userCount' = userCount
        /\ deletedCount' = deletedCount
        /\ currentPage' = currentPage
        /\ pagination' = pagination
        /\ UNCHANGED <<script, PASSWORD, loginDisplay, mainDisplay, pwdInput>>]_vars

\* an export was accepted while the second page was shown, with a Deleted
\* row on it
C25_Witness ==
    /\ lastEvent.op = "export"
    /\ file # NoFile
    /\ currentPage = 2
    /\ \E i \in DeletedRows : PageOf(i) = 2

\* positions of the lines that produce a record: the kept 'User <id>' lines
\* before which no kept line has the same id
Producers(its) ==
    {k \in DOMAIN its :
        /\ its[k].candidate /\ its[k].kept
        /\ \A j \in 1..(k - 1) :
              ~(its[j].candidate /\ its[j].kept /\ its[j].user_id = its[k].user_id)}

\* the n-th smallest of a set of positions
Nth(positions, n) ==
    CHOOSE k \in positions : Cardinality({j \in positions : j < k}) = n - 1

\* parse_bosch_txt has just returned to generate_report
JustReturned ==
    parsed # <<>> /\ pc \in {"logo", "done"} /\ logo = NoLogo /\ html = NoFile

\* C26: the list parse_bosch_txt returns has one record for every line
\* that produces one, in the order in which these lines stand in the file,
\* and no two of these lines have the same id: at most one record per id.
C26_UniqueIdsInFileOrder ==
    JustReturned =>
        LET its == IterationsOver(inputFile.lines)
            from == Producers(its)
        IN  /\ Len(parsed[1]) = Cardinality(from)
            /\ \A n \in 1..Len(parsed[1]) :
                  parsed[1][n] = RecordOf(its[Nth(from, n)])
            /\ \A j, k \in from : its[j].user_id = its[k].user_id => j = k
            /\ \A u \in {its[k].user_id :
                            k \in {j \in DOMAIN its : its[j].candidate /\ its[j].kept}} :
                  Cardinality({k \in from : its[k].user_id = u}) = 1

\* the parser returned two records for a file of three kept lines, the
\* first with id 7, the third repeating the id of the second
C26_Witness ==
    /\ JustReturned
    /\ Len(parsed[1]) = 2
    /\ Len(inputFile.lines) = 3
    /\ LET its == IterationsOver(inputFile.lines)
       IN  /\ \A k \in 1..3 : its[k].candidate /\ its[k].kept
           /\ its[1].user_id = <<"7">>
           /\ its[3].user_id = its[2].user_id
           /\ RecordOf(its[3]) # RecordOf(its[2])

\* C27: whenever the content is visible, in a rendered document after the
\* gate and in a re-opened export alike, the rows displayed are exactly
\* those at the positions of the current page, (currentPage - 1) * 50 to
\* currentPage * 50 - 1 counted from 0, and the page button marked active,
\* where there are page buttons, is that of the current page.
C27_VisibleRowsAreCurrentPage ==
    MainVisible =>
        /\ VisibleRows =
              {i \in 1..Len(rows) :
                  /\ i - 1 >= (currentPage - 1) * rowsPerPage
                  /\ i - 1 <= currentPage * rowsPerPage - 1}
        /\ \A k \in 1..Len(pagination) : pagination[k].active <=> (k = currentPage)

\* the current page is one of the pages of n rows: at least 1, and with a
\* row at its first position
PageInRange(page, n) == page >= 1 /\ (page - 1) * rowsPerPage < n

\* C28: in a document with at least one row the current page is at least 1
\* and at most ceil(N/50), before and after every step, so it holds a row;
\* and an addRow after which there is one page more leaves the current
\* page where it was.
C28_CurrentPageInRange ==
    [][/\ Len(rows) >= 1 =>
              /\ PageInRange(currentPage, Len(rows))
              /\ \E i \in 1..Len(rows) : PageOf(i) = currentPage
       /\ Len(rows') >= 1 =>
              /\ PageInRange(currentPage', Len(rows'))
              /\ currentPage' <= TotalPages(Len(rows'))
              /\ \E i \in 1..Len(rows') : PageOf(i) = currentPage'
       /\ (lastEvent'.op = "addRow" /\ Len(rows) % rowsPerPage = 0) =>
              /\ TotalPages(Len(rows')) = TotalPages(Len(rows)) + 1
              /\ currentPage' = currentPage]_vars

\* a row was added to a full single page: there are two pages now, the
\* first is still the current one and the new row is not displayed
C28_Witness ==
    /\ lastEvent.op = "addRow"
    /\ Len(rows) = rowsPerPage + 1
    /\ Len(pagination) = 2
    /\ currentPage = 1
    /\ rows[Len(rows)].display = "none"

====
